---- MODULE Spec2Model ----
(***************************************************************************)
(* Model of the digest-headers crate: ShaSize, Digest (construction,       *)
(* formatting, parsing, verification) from src/src/lib.rs, and the Rocket  *)
(* guard DigestVerifiedBody::from_data from src/examples/rocket.rs.        *)
(*                                                                         *)
(* A Rust String / &str is modelled as the sequence of its UTF-8 bytes     *)
(* (numbers 0..255), a &[u8] as a sequence of bytes. Rust indices are      *)
(* 0-based byte offsets; TLA+ sequences are 1-based, so byte offset i is   *)
(* element i + 1.                                                          *)
(***************************************************************************)
EXTENDS Integers, Sequences, FiniteSets, TLC

VARIABLES
    d,          \* the Digest value the caller currently holds (or NoDigest)
    last,       \* the last library call: its name, argument and result
    calls,      \* number of consecutive verify calls on the same d and body
    pc,         \* from_data: position in the function
    req,        \* from_data: the request's Digest and Content-Length headers
    stream,     \* from_data: what the body stream will yield
    digest,     \* from_data: local `digest`
    content_length, \* from_data: local `content_length`
    body,       \* from_data: local `body` buffer (bytes filled so far)
    bytesRead,  \* bytes the guard has taken from the body stream
    readCalls,  \* read calls the guard has made on the body stream
    outcome,    \* from_data: the returned Outcome (or NoOutcome)
    hpc,        \* use_hyper: position in into_digest / as_digest / with_digest
    hcall,      \* use_hyper: the method called and its sha_size
    hreq,       \* use_hyper: the request (self) the method was called on
    hparts,     \* as_digest: the parts deconstruct() returned
    hstream,    \* the body stream: chunks not yet polled, bytes collected
    hdigest,    \* into_digest: local `digest`
    hnew,       \* as_digest / with_digest: local `req`
    hret,       \* use_hyper: the value the method returned
    hrecv       \* what the receiver of the request found

vars == <<d, last, calls, pc, req, stream, digest, content_length, body,
          bytesRead, readCalls, outcome, hpc, hcall, hreq, hparts, hstream,
          hdigest, hnew, hret, hrecv>>

digestVars == <<d, last, calls>>
guardVars == <<pc, req, stream, digest, content_length, body, bytesRead,
               readCalls, outcome>>
hyperVars == <<hpc, hcall, hreq, hparts, hstream, hdigest, hnew, hret, hrecv>>

----------------------------------------------------------------------------
(* Bounds of the model *)

\* longest message body, in bytes
MaxBodyLen == 2
\* most consecutive verify calls that are counted
MaxCalls == 3

----------------------------------------------------------------------------
(* Results *)

Ok(v) == [tag |-> "Ok", val |-> v]
Err(e) == [tag |-> "Err", err |-> e]
\* a Rust panic (abort of the call)
Panic == [tag |-> "Panic"]
Some(v) == [tag |-> "Some", val |-> v]
None == [tag |-> "None"]

\* enum Error
Error == {"ParseShaSize", "ParseDigest", "InvalidDigest"}

----------------------------------------------------------------------------
(* Strings as UTF-8 byte sequences *)

\* the byte of '='
EQ == 61

\* str::is_char_boundary: offset 0 and len are boundaries, an offset beyond
\* len is not, otherwise the byte at the offset must not be a UTF-8
\* continuation byte (0b10xxxxxx = 128..191)
IsCharBoundary(s, i) ==
    IF i = 0 \/ i = Len(s) THEN TRUE
    ELSE IF i > Len(s) THEN FALSE
    ELSE ~(s[i + 1] >= 128 /\ s[i + 1] <= 191)

\* str::find(char): byte offset of the first occurrence, or None
Find(s, c) ==
    IF \E i \in 1..Len(s) : s[i] = c
    THEN Some((CHOOSE i \in 1..Len(s) :
                  /\ s[i] = c
                  /\ \A j \in 1..(i - 1) : s[j] # c) - 1)
    ELSE None

\* str::split_at(mid): panics when mid is past the end or not on a char
\* boundary, else (s[..mid], s[mid..])
SplitAt(s, mid) ==
    IF IsCharBoundary(s, mid)
    THEN Ok(<<SubSeq(s, 1, mid), SubSeq(s, mid + 1, Len(s))>>)
    ELSE Panic

\* str::get(1..): None when offset 1 is past the end or not on a char
\* boundary, else s[1..]
GetFrom1(s) ==
    IF IsCharBoundary(s, 1) THEN Some(SubSeq(s, 2, Len(s))) ELSE None

----------------------------------------------------------------------------
(* ShaSize *)

ShaSize == {"TwoFiftySix", "ThreeEightyFour", "FiveTwelve"}

\* the three names, as UTF-8 bytes: "SHA-256", "SHA-384", "SHA-512"
NameSha256 == <<83, 72, 65, 45, 50, 53, 54>>
NameSha384 == <<83, 72, 65, 45, 51, 56, 52>>
NameSha512 == <<83, 72, 65, 45, 53, 49, 50>>

\* impl Display for ShaSize
ShaSizeDisplay(size) ==
    CASE size = "TwoFiftySix" -> NameSha256
      [] size = "ThreeEightyFour" -> NameSha384
      [] size = "FiveTwelve" -> NameSha512

\* a slip in the match arms: "SHA-384" and "SHA-512" exchanged
ShaSizeFromStrSwapped(s) ==
    IF s = NameSha256 THEN Ok("TwoFiftySix")
    ELSE IF s = NameSha384 THEN Ok("FiveTwelve")
    ELSE IF s = NameSha512 THEN Ok("ThreeEightyFour")
    ELSE Err("ParseShaSize")

\* a slip in ShaSize::from_str: the wrong Error variant is returned
ShaSizeFromStrWrongError(s) ==
    IF s = NameSha256 THEN Ok("TwoFiftySix")
    ELSE IF s = NameSha384 THEN Ok("ThreeEightyFour")
    ELSE IF s = NameSha512 THEN Ok("FiveTwelve")
    ELSE Err("ParseDigest")

\* impl FromStr for ShaSize
ShaSizeFromStr(s) ==
    IF s = NameSha256 THEN Ok("TwoFiftySix")
    ELSE IF s = NameSha384 THEN Ok("ThreeEightyFour")
    ELSE IF s = NameSha512 THEN Ok("FiveTwelve")
    ELSE Err("ParseShaSize")

----------------------------------------------------------------------------
(* base64::encode: the standard alphabet, with '=' padding *)

Base64Char(i) ==
    IF i < 26 THEN 65 + i
    ELSE IF i < 52 THEN 97 + (i - 26)
    ELSE IF i < 62 THEN 48 + (i - 52)
    ELSE IF i = 62 THEN 43
    ELSE 47

RECURSIVE Base64Encode(_)
Base64Encode(bytes) ==
    IF Len(bytes) = 0 THEN <<>>
    ELSE IF Len(bytes) = 1 THEN
        << Base64Char(bytes[1] \div 4),
           Base64Char((bytes[1] % 4) * 16),
           EQ, EQ >>
    ELSE IF Len(bytes) = 2 THEN
        << Base64Char(bytes[1] \div 4),
           Base64Char((bytes[1] % 4) * 16 + bytes[2] \div 16),
           Base64Char((bytes[2] % 16) * 4),
           EQ >>
    ELSE
        << Base64Char(bytes[1] \div 4),
           Base64Char((bytes[1] % 4) * 16 + bytes[2] \div 16),
           Base64Char((bytes[2] % 16) * 4 + bytes[3] \div 64),
           Base64Char(bytes[3] % 64) >>
        \o Base64Encode(SubSeq(bytes, 4, Len(bytes)))

----------------------------------------------------------------------------
(* ring::digest::digest: the hash primitive.  The crate treats it as a     *)
(* deterministic function from (algorithm, bytes) to a fixed number of     *)
(* output bytes; it is modelled by such a function, with the algorithms'   *)
(* output lengths (256, 384 and 512 bits) and a small mixing function in   *)
(* place of the SHA-2 compression.                                         *)

\* the algorithm selected by the match in RequestBody::digest
Algorithm(sha_size) ==
    CASE sha_size = "TwoFiftySix" -> [name |-> "SHA256", output_len |-> 256 \div 8]
      [] sha_size = "ThreeEightyFour" -> [name |-> "SHA384", output_len |-> 384 \div 8]
      [] sha_size = "FiveTwelve" -> [name |-> "SHA512", output_len |-> 512 \div 8]

RECURSIVE Absorb(_, _)
Absorb(acc, bytes) ==
    IF bytes = <<>> THEN acc
    ELSE Absorb((acc * 257 + bytes[1] + 1) % 1048576, Tail(bytes))

RingDigest(alg, bytes) ==
    LET acc == Absorb(alg.output_len, bytes)
    IN  [i \in 1..alg.output_len |->
            ((acc \div (256 ^ ((i - 1) % 3))) + 7 * (i - 1)) % 256]

----------------------------------------------------------------------------
(* Digest *)

\* Digest::from_base64_and_size
FromBase64AndSize(digest_, size) == [digest |-> digest_, size |-> size]

\* RequestBody::new(body).digest(sha_size)
RequestBodyDigest(body_, sha_size) ==
    LET size == Algorithm(sha_size)
        dd == RingDigest(size, body_)
        b == Base64Encode(dd)
    IN  FromBase64AndSize(b, sha_size)

\* Digest::new
DigestNew(body_, size) == RequestBodyDigest(body_, size)

\* Digest::sha_size
DigestShaSize(self) == self.size

\* a slip in as_string: the '=' between name and value left out
AsStringNoDelimiter(self) == ShaSizeDisplay(self.size) \o self.digest

\* Digest::as_string: format!("{}={}", self.size, self.digest)
AsString(self) == ShaSizeDisplay(self.size) \o <<EQ>> \o self.digest

\* a slip in verify: the encoded strings are compared without their padding
RECURSIVE TrimPadding(_)
TrimPadding(s) ==
    IF s # <<>> /\ s[Len(s)] = EQ THEN TrimPadding(SubSeq(s, 1, Len(s) - 1))
    ELSE s

VerifyIgnoringPadding(self, body_) ==
    LET digest_ == DigestNew(body_, self.size)
    IN  IF self.size = digest_.size
           /\ TrimPadding(self.digest) = TrimPadding(digest_.digest)
        THEN Ok(<<>>) ELSE Err("InvalidDigest")

\* a slip in verify: only the ShaSize of the two digests is compared
VerifySizeOnly(self, body_) ==
    LET digest_ == DigestNew(body_, self.size)
    IN  IF self.size = digest_.size THEN Ok(<<>>) ELSE Err("InvalidDigest")

\* a slip in verify: the body is hashed with a fixed ShaSize
VerifyFixedSize(self, body_) ==
    LET digest_ == DigestNew(body_, "TwoFiftySix")
    IN  IF self = digest_ THEN Ok(<<>>) ELSE Err("InvalidDigest")

\* Digest::verify
Verify(self, body_) ==
    LET digest_ == DigestNew(body_, self.size)
    IN  IF self = digest_ THEN Ok(<<>>) ELSE Err("InvalidDigest")

\* a slip in from_str: the offset of the LAST '=' is looked up (rfind)
FindEqLast(s) ==
    IF \E i \in 1..Len(s) : s[i] = EQ
    THEN Some((CHOOSE i \in 1..Len(s) :
                  /\ s[i] = EQ
                  /\ \A j \in (i + 1)..Len(s) : s[j] # EQ) - 1)
    ELSE None

\* a slip in from_str: the offset counts chars, not bytes
\* (s.chars().position(..)): continuation bytes before the match are skipped
FindEqCharIndex(s) ==
    IF Find(s, EQ) = None THEN None
    ELSE Some(Cardinality({j \in 1..Find(s, EQ).val :
                              ~(s[j] >= 128 /\ s[j] <= 191)}))

\* s.find('=')
FindEq(s) == Find(s, EQ)

\* a slip in from_str: the error of tup.0.parse() is mapped to ParseDigest
ShaSizeErrorAsParseDigest(e) == "ParseDigest"

\* the conversion `?` applies to the error of tup.0.parse(): both functions
\* have Err = Error, so it is From<Error> for Error
QuestionMarkErr(e) == e

\* impl FromStr for Digest
DigestFromStr(s) ==
    LET eq_index == FindEq(s)
    IN  IF eq_index = None THEN Err("ParseDigest")
        ELSE LET tup == SplitAt(s, eq_index.val)
             IN  IF tup = Panic THEN Panic
                 ELSE LET val == GetFrom1(tup.val[2])
                          size == ShaSizeFromStr(tup.val[1])
                      IN  IF val = None THEN Err("ParseDigest")
                          ELSE IF size.tag = "Err"
                          THEN Err(QuestionMarkErr(size.err))
                          ELSE Ok([digest |-> val.val, size |-> size.val])

----------------------------------------------------------------------------
(* Inputs *)

BodyBytes == {0, 255}

RECURSIVE SeqsUpTo(_, _)
SeqsUpTo(S, n) ==
    IF n = 0 THEN {<<>>}
    ELSE LET shorter == SeqsUpTo(S, n - 1)
         IN  shorter \cup {<<x>> \o t : x \in S, t \in {u \in shorter : Len(u) = n - 1}}

\* message bodies
Bodies == SeqsUpTo(BodyBytes, MaxBodyLen)

\* the same text with the case of every ASCII letter exchanged
SwapCase(s) ==
    [i \in 1..Len(s) |->
        IF s[i] >= 65 /\ s[i] <= 90 THEN s[i] + 32
        ELSE IF s[i] >= 97 /\ s[i] <= 122 THEN s[i] - 32
        ELSE s[i]]

\* "not a hash", "not a valid digest", "abc", and a two-byte char (e acute)
StrNotAHash == <<110, 111, 116, 32, 97, 32, 104, 97, 115, 104>>
StrNotAValidDigest ==
    <<110, 111, 116, 32, 97, 32, 118, 97, 108, 105, 100, 32, 100, 105, 103,
      101, 115, 116>>
StrAbc == <<97, 98, 99>>
StrEAcute == <<195, 169>>

\* encoded strings that are no hash of anything: "", "=", "a==", "=a",
\* "not a hash", "abc", e acute
LiteralEncodings ==
    { <<>>, <<EQ>>, <<97, EQ, EQ>>, <<EQ, 97>>, StrNotAHash, StrAbc, StrEAcute }

\* the encodings of the bodies, and their near misses: padding removed,
\* padding added, letter case exchanged
BodyEncodings ==
    UNION { LET e == DigestNew(b, v).digest
            IN  {e, TrimPadding(e), e \o <<EQ>>, SwapCase(e)}
          : b \in Bodies, v \in ShaSize }

Encodings == LiteralEncodings \cup BodyEncodings

\* what may stand before the '=' of a header: the three names, "SHA-420",
\* "sha-256", " SHA-256", "SHA-256 ", "", "SHA-25", e acute, "not a valid digest"
Heads ==
    { NameSha256, NameSha384, NameSha512,
      <<83, 72, 65, 45, 52, 50, 48>>,
      <<115, 104, 97, 45, 50, 53, 54>>,
      <<32>> \o NameSha256,
      NameSha256 \o <<32>>,
      <<>>,
      <<83, 72, 65, 45, 50, 53>>,
      StrEAcute,
      StrNotAValidDigest }

ParseTails == LiteralEncodings \cup {DigestNew(<<>>, v).digest : v \in ShaSize}

\* header values given to Digest::from_str
ParseInputs == Heads \cup {h \o <<EQ>> \o t : h \in Heads, t \in ParseTails}

\* strings given to ShaSize::from_str
ShaInputs == Heads \cup {h \o <<EQ>> : h \in Heads} \cup {StrAbc \o h : h \in Heads}

----------------------------------------------------------------------------
(* The library's callers: one action per call.  A caller obtains one       *)
(* Digest (new, from_base64_and_size or parse) and then calls its methods.  *)

NoDigest == None
NoCall == [op |-> "none"]

\* let digest = Digest::new(body, size)
CallNew(b, v) ==
    /\ d = NoDigest
    /\ d' = DigestNew(b, v)
    /\ last' = [op |-> "new", body |-> b, size |-> v]
    /\ calls' = 0
    /\ UNCHANGED <<guardVars, hyperVars>>

\* let digest = Digest::from_base64_and_size(digest_str, size)
CallFromBase64AndSize(e, v) ==
    /\ d = NoDigest
    /\ d' = FromBase64AndSize(e, v)
    /\ last' = [op |-> "from_base64_and_size", str |-> e, size |-> v]
    /\ calls' = 0
    /\ UNCHANGED <<guardVars, hyperVars>>

\* digest.as_string()
CallAsString ==
    /\ d # NoDigest
    /\ last' = [op |-> "as_string", res |-> AsString(d)]
    /\ calls' = 0
    /\ UNCHANGED <<d, guardVars, hyperVars>>

\* digest.as_string().parse::<Digest>(): the formatted digest is parsed back
CallParseFormatted ==
    /\ last.op = "as_string"
    /\ last' = [op |-> "parse", str |-> last.res, formatted |-> TRUE,
                res |-> DigestFromStr(last.res)]
    /\ calls' = 0
    /\ UNCHANGED <<d, guardVars, hyperVars>>

\* let digest = raw_digest.parse::<Digest>()?  (a header value is parsed; on
\* success the caller holds the parsed Digest)
CallParse(s) ==
    /\ d = NoDigest
    /\ LET r == DigestFromStr(s)
       IN  /\ last' = [op |-> "parse", str |-> s, formatted |-> FALSE, res |-> r]
           /\ d' = IF r.tag = "Ok" THEN r.val ELSE d
    /\ calls' = 0
    /\ UNCHANGED <<guardVars, hyperVars>>

\* sha.parse::<ShaSize>()
CallParseSha(s) ==
    /\ d = NoDigest
    /\ last' = [op |-> "parse_sha", str |-> s, res |-> ShaSizeFromStr(s)]
    /\ calls' = 0
    /\ UNCHANGED <<d, guardVars, hyperVars>>

\* digest.verify(body); calls counts the consecutive calls with this body
CallVerify(b) ==
    /\ d # NoDigest
    /\ LET again == last.op = "verify" /\ last.body = b
       IN  /\ again => calls < MaxCalls
           /\ calls' = IF again THEN calls + 1 ELSE 1
    /\ last' = [op |-> "verify", body |-> b, res |-> Verify(d, b)]
    /\ UNCHANGED <<d, guardVars, hyperVars>>

----------------------------------------------------------------------------
(* examples/rocket.rs: the request guards and DigestVerifiedBody::from_data *)

\* str::parse::<usize>: an optional '+', then one or more ASCII digits whose
\* value is at most usize::MAX (2^64 - 1 on a 64-bit target); a value above
\* it is an overflow error.  The value is compared with usize::MAX digit by
\* digit; the header values of the model that do not overflow stay below
\* 2^31, so their value is an integer of the model.
RECURSIVE DigitsValue(_, _)
DigitsValue(acc, s) ==
    IF s = <<>> THEN acc
    ELSE DigitsValue(acc * 10 + (s[1] - 48), Tail(s))

\* the digits of usize::MAX, "18446744073709551615"
UsizeMaxDigits ==
    <<49, 56, 52, 52, 54, 55, 52, 52, 48, 55, 51, 55, 48, 57, 53, 53, 49, 54, 49, 53>>

RECURSIVE StripZeros(_)
StripZeros(s) ==
    IF s # <<>> /\ s[1] = 48 THEN StripZeros(Tail(s)) ELSE s

\* the number written by the digits s is above usize::MAX
OverflowsUsize(s) ==
    LET sig == StripZeros(s)
    IN  \/ Len(sig) > Len(UsizeMaxDigits)
        \/ /\ Len(sig) = Len(UsizeMaxDigits)
           /\ \E i \in 1..Len(sig) :
                 /\ sig[i] > UsizeMaxDigits[i]
                 /\ \A j \in 1..(i - 1) : sig[j] = UsizeMaxDigits[j]

ParseUsize(s) ==
    LET digits == IF s # <<>> /\ s[1] = 43 THEN Tail(s) ELSE s
    IN  IF digits = <<>> THEN Err("ParseIntError")
        ELSE IF \E i \in 1..Len(digits) : digits[i] < 48 \/ digits[i] > 57
        THEN Err("ParseIntError")
        ELSE IF OverflowsUsize(digits) THEN Err("ParseIntError")
        ELSE Ok(DigitsValue(0, digits))

\* impl FromRequest for DigestHeader (the example's own guard)
DigestHeaderFromRequest(request) ==
    LET res == request.digest
    IN  IF res.tag = "Some" /\ DigestFromStr(res.val).tag = "Ok"
        THEN [kind |-> "Success", val |-> DigestFromStr(res.val).val]
        ELSE [kind |-> "Failure", status |-> "BadRequest"]

\* impl FromRequest for ContentLengthHeader (the example's own guard)
ContentLengthHeaderFromRequest(request) ==
    LET res == request.content_length
    IN  IF res.tag = "Some" /\ ParseUsize(res.val).tag = "Ok"
        THEN [kind |-> "Success", val |-> ParseUsize(res.val).val]
        ELSE [kind |-> "Failure", status |-> "BadRequest"]

\* a slip in the size test: the comparison turned round
ExceedsCeilingReversed(n) == n < 1024 * 1024 * 2

\* a slip in the size test: >= in place of >
ExceedsCeilingInclusive(n) == n >= 1024 * 1024 * 2

\* the size test of from_data: content_length > 1024 * 1024 * 2
ExceedsCeiling(n) == n > 1024 * 1024 * 2

\* return Outcome::Failure((status, ())) at the stage `at`
Fail(status, at) == [kind |-> "Failure", status |-> status, at |-> at]

\* a slip in from_data: the Content-Length guard and the size test are run
\* before the Digest guard
ExtractDigestAfterSizeTest ==
    /\ pc = "ExtractDigest"
    /\ LET g == DigestHeaderFromRequest(req)
           l == ContentLengthHeaderFromRequest(req)
       IN  IF l.kind = "Success" /\ ExceedsCeiling(l.val)
           THEN /\ outcome' = Fail("BadRequest", "BoundCheck")
                /\ pc' = "done"
                /\ UNCHANGED digest
           ELSE IF g.kind = "Success"
           THEN /\ digest' = g.val
                /\ pc' = "ExtractLength"
                /\ UNCHANGED outcome
           ELSE /\ outcome' = Fail(g.status, "ExtractDigest")
                /\ pc' = "done"
                /\ UNCHANGED digest
    /\ UNCHANGED <<req, stream, content_length, body, bytesRead, readCalls, digestVars,
                   hyperVars>>

\* let digest = match req.guard::<DigestHeader>() { .. }
ExtractDigest ==
    /\ pc = "ExtractDigest"
    /\ LET g == DigestHeaderFromRequest(req)
       IN  IF g.kind = "Success"
           THEN /\ digest' = g.val
                /\ pc' = "ExtractLength"
                /\ UNCHANGED outcome
           ELSE /\ outcome' = Fail(g.status, "ExtractDigest")
                /\ pc' = "done"
                /\ UNCHANGED digest
    /\ UNCHANGED <<req, stream, content_length, body, bytesRead, readCalls, digestVars,
                   hyperVars>>

\* let content_length = match req.guard::<ContentLengthHeader>() { .. }
ExtractLength ==
    /\ pc = "ExtractLength"
    /\ LET g == ContentLengthHeaderFromRequest(req)
       IN  IF g.kind = "Success"
           THEN /\ content_length' = g.val
                /\ pc' = "BoundCheck"
                /\ UNCHANGED outcome
           ELSE /\ outcome' = Fail(g.status, "ExtractLength")
                /\ pc' = "done"
                /\ UNCHANGED content_length
    /\ UNCHANGED <<req, stream, digest, body, bytesRead, readCalls, digestVars,
                   hyperVars>>

\* if content_length > 1024 * 1024 * 2 { return Failure(BadRequest) }
\* let mut body = vec![0u8; content_length];
\* (body holds the bytes filled in so far; the rest of the buffer is zero)
BoundCheck ==
    /\ pc = "BoundCheck"
    /\ IF ExceedsCeiling(content_length)
       THEN /\ outcome' = Fail("BadRequest", "BoundCheck")
            /\ pc' = "done"
       ELSE /\ pc' = "BoundedRead"
            /\ UNCHANGED outcome
    /\ body' = <<>>
    /\ UNCHANGED <<req, stream, digest, content_length, bytesRead, readCalls, digestVars,
                   hyperVars>>

\* what the stream has not yielded yet
Remaining == SubSeq(stream.data, bytesRead + 1, Len(stream.data))

\* a slip in from_data: the stream is read without regard to the length of
\* the buffer (read_to_end in place of read_exact)
ReadChunkUnbounded(n) ==
    /\ pc = "BoundedRead"
    /\ n >= 1 /\ n <= Len(Remaining)
    /\ body' = body \o SubSeq(Remaining, 1, n)
    /\ bytesRead' = bytesRead + n
    /\ readCalls' = readCalls + 1
    /\ UNCHANGED <<pc, req, stream, digest, content_length, outcome, digestVars,
                   hyperVars>>

\* read_exact: one read call that yields n bytes (1 <= n <= what the buffer
\* still needs and the stream still has)
ReadChunk(n) ==
    /\ pc = "BoundedRead"
    /\ Len(body) < content_length
    /\ n >= 1 /\ n <= content_length - Len(body) /\ n <= Len(Remaining)
    /\ body' = body \o SubSeq(Remaining, 1, n)
    /\ bytesRead' = bytesRead + n
    /\ readCalls' = readCalls + 1
    /\ UNCHANGED <<pc, req, stream, digest, content_length, outcome, digestVars,
                   hyperVars>>

\* a slip in from_data: the result of the read is not looked at, and what
\* was read before the end of the stream is verified
ReadEofIgnored ==
    /\ pc = "BoundedRead"
    /\ Len(body) < content_length
    /\ Remaining = <<>> /\ ~stream.fails
    /\ readCalls' = readCalls + 1
    /\ pc' = "Verify"
    /\ UNCHANGED <<req, stream, digest, content_length, body, bytesRead, outcome,
                   digestVars,
                   hyperVars>>

\* read_exact: a read call at the end of the stream yields Ok(0), the
\* buffer is not full: Err(UnexpectedEof), from_data returns
\* Failure(InternalServerError)
ReadEof ==
    /\ pc = "BoundedRead"
    /\ Len(body) < content_length
    /\ Remaining = <<>> /\ ~stream.fails
    /\ readCalls' = readCalls + 1
    /\ outcome' = Fail("InternalServerError", "BoundedRead")
    /\ pc' = "done"
    /\ UNCHANGED <<req, stream, digest, content_length, body, bytesRead, digestVars,
                   hyperVars>>

\* read_exact: a read call fails with an I/O error: Err(e), from_data
\* returns Failure(InternalServerError)
ReadError ==
    /\ pc = "BoundedRead"
    /\ Len(body) < content_length
    /\ Remaining = <<>> /\ stream.fails
    /\ readCalls' = readCalls + 1
    /\ outcome' = Fail("InternalServerError", "BoundedRead")
    /\ pc' = "done"
    /\ UNCHANGED <<req, stream, digest, content_length, body, bytesRead, digestVars,
                   hyperVars>>

\* read_exact returns Ok(()) once the buffer is full (at once when it is empty)
ReadDone ==
    /\ pc = "BoundedRead"
    /\ Len(body) = content_length
    /\ pc' = "Verify"
    /\ UNCHANGED <<req, stream, digest, content_length, body, bytesRead, readCalls,
                   outcome, digestVars,
                   hyperVars>>

\* a slip in from_data: only the ShaSize of the two digests is compared
VerifyBodySizeOnly ==
    /\ pc = "Verify"
    /\ LET body_digest == DigestNew(body, DigestShaSize(digest))
       IN  outcome' = IF digest.size # body_digest.size
                      THEN Fail("BadRequest", "Verify")
                      ELSE [kind |-> "Success", val |-> body]
    /\ pc' = "done"
    /\ UNCHANGED <<req, stream, digest, content_length, body, bytesRead, readCalls,
                   digestVars,
                   hyperVars>>

\* let body_digest = Digest::new(&body, digest.sha_size());
\* if digest != body_digest { Failure(BadRequest) } else { Success(body) }
VerifyBody ==
    /\ pc = "Verify"
    /\ LET body_digest == DigestNew(body, DigestShaSize(digest))
       IN  outcome' = IF digest # body_digest
                      THEN Fail("BadRequest", "Verify")
                      ELSE [kind |-> "Success", val |-> body]
    /\ pc' = "done"
    /\ UNCHANGED <<req, stream, digest, content_length, body, bytesRead, readCalls,
                   digestVars,
                   hyperVars>>

\* Digest header values of the requests: none, the digest of a body under
\* each ShaSize, and values that are no digest or not the body's
DigestHeaders ==
    {None}
    \cup {Some(AsString(DigestNew(b, v))) : b \in Bodies, v \in ShaSize}
    \cup {Some(StrNotAValidDigest),
          Some(<<83, 72, 65, 45, 52, 50, 48, EQ>> \o StrAbc),
          Some(NameSha256 \o <<EQ>> \o StrNotAHash)}

\* Content-Length header values: none, "0", "1", "2", "3", "+2", "2097151",
\* "2097152", "2097153", "3000000", "", "abc", "-1", " 2", and 2^64,
\* "18446744073709551616"
LengthHeaders ==
    {None, Some(<<48>>), Some(<<49>>), Some(<<50>>), Some(<<51>>), Some(<<43, 50>>),
     Some(<<50, 48, 57, 55, 49, 53, 49>>),
     Some(<<50, 48, 57, 55, 49, 53, 50>>),
     Some(<<50, 48, 57, 55, 49, 53, 51>>),
     Some(<<51, 48, 48, 48, 48, 48, 48>>),
     Some(<<>>), Some(StrAbc), Some(<<45, 49>>), Some(<<32, 50>>),
     Some(<<49, 56, 52, 52, 54, 55, 52, 52, 48, 55, 51, 55, 48, 57, 53, 53, 49, 54,
            49, 54>>)}

\* body streams: the bytes they yield, then end of stream or an I/O error
Streams == [data : Bodies, fails : BOOLEAN]

\* no use_hyper method has been called
HyperIdle ==
    /\ hpc = "idle"
    /\ hcall = NoCall
    /\ hreq = None
    /\ hparts = None
    /\ hstream = [rest |-> <<>>, acc |-> <<>>]
    /\ hdigest = NoDigest
    /\ hnew = None
    /\ hret = None
    /\ hrecv = None

GuardIdle ==
    /\ pc = "idle"
    /\ req = [digest |-> None, content_length |-> None]
    /\ stream = [data |-> <<>>, fails |-> FALSE]
    /\ digest = NoDigest
    /\ content_length = 0
    /\ body = <<>>
    /\ bytesRead = 0
    /\ readCalls = 0
    /\ outcome = None

Init ==
    /\ d = NoDigest
    /\ last = NoCall
    /\ calls = 0
    /\ GuardIdle
    /\ HyperIdle

Next ==
    \/ \E b \in Bodies, v \in ShaSize : CallNew(b, v)
    \/ \E e \in Encodings, v \in ShaSize : CallFromBase64AndSize(e, v)
    \/ CallAsString
    \/ CallParseFormatted
    \/ \E s \in ParseInputs : CallParse(s)
    \/ \E s \in ShaInputs : CallParseSha(s)
    \/ \E b \in Bodies : CallVerify(b)

\* the library, called by one caller
Spec == Init /\ [][Next]_vars

\* a request arrives: from_data is entered with its headers and body stream
InitGuard ==
    /\ d = NoDigest
    /\ last = NoCall
    /\ calls = 0
    /\ pc = "ExtractDigest"
    /\ req \in [digest : DigestHeaders, content_length : LengthHeaders]
    /\ stream \in Streams
    /\ digest = NoDigest
    /\ content_length = 0
    /\ body = <<>>
    /\ bytesRead = 0
    /\ readCalls = 0
    /\ outcome = None
    /\ HyperIdle

NextGuard ==
    \/ ExtractDigest
    \/ ExtractLength
    \/ BoundCheck
    \/ \E n \in 1..MaxBodyLen : ReadChunk(n)
    \/ ReadEof
    \/ ReadError
    \/ ReadDone
    \/ VerifyBody

\* DigestVerifiedBody::from_data on one request
SpecGuard == InitGuard /\ [][NextGuard]_vars

----------------------------------------------------------------------------
(* use_rocket.rs: the request guards DigestHeader and ContentLengthHeader *)

\* enum Error of use_rocket: Digest(DigestError), Header(&'static str)
RocketErrorDigest(e) == [variant |-> "Digest", err |-> e]
RocketErrorHeader(which) == [variant |-> "Header", which |-> which]

\* Error::as_rocket_failure: the status is BadRequest for both variants
AsRocketFailure(error) ==
    [kind |-> "Failure", status |-> "BadRequest", error |-> error]

\* a slip in DigestHeader::from_request: the parse error is replaced by the
\* header error (map_err(|_| Error::Header("Digest")))
RocketDigestHeaderParseErrorAsHeader(request) ==
    LET h == request.digest
    IN  IF h.tag = "None" THEN AsRocketFailure(RocketErrorHeader("Digest"))
        ELSE LET parsed == DigestFromStr(h.val)
             IN  IF parsed.tag = "Ok" THEN [kind |-> "Success", val |-> parsed.val]
                 ELSE AsRocketFailure(RocketErrorHeader("Digest"))

\* impl FromRequest for DigestHeader (use_rocket)
RocketDigestHeaderFromRequest(request) ==
    LET h == request.digest
    IN  IF h.tag = "None" THEN AsRocketFailure(RocketErrorHeader("Digest"))
        ELSE LET parsed == DigestFromStr(h.val)
             IN  IF parsed.tag = "Ok" THEN [kind |-> "Success", val |-> parsed.val]
                 ELSE IF parsed.tag = "Err"
                 THEN AsRocketFailure(RocketErrorDigest(parsed.err))
                 ELSE Panic

\* a slip in ContentLengthHeader::from_request: the header named in the
\* error is the Digest header
RocketContentLengthWrongName(request) ==
    LET h == request.content_length
    IN  IF h.tag = "None" THEN AsRocketFailure(RocketErrorHeader("Content-Length"))
        ELSE LET parsed == ParseUsize(h.val)
             IN  IF parsed.tag = "Ok" THEN [kind |-> "Success", val |-> parsed.val]
                 ELSE AsRocketFailure(RocketErrorHeader("Digest"))

\* impl FromRequest for ContentLengthHeader (use_rocket)
RocketContentLengthFromRequest(request) ==
    LET h == request.content_length
    IN  IF h.tag = "None" THEN AsRocketFailure(RocketErrorHeader("Content-Length"))
        ELSE LET parsed == ParseUsize(h.val)
             IN  IF parsed.tag = "Ok" THEN [kind |-> "Success", val |-> parsed.val]
                 ELSE AsRocketFailure(RocketErrorHeader("Content-Length"))

\* Rocket runs the DigestHeader guard on the request
GuardDigestHeader ==
    /\ pc = "guards"
    /\ last' = [op |-> "DigestHeader::from_request",
                res |-> RocketDigestHeaderFromRequest(req)]
    /\ UNCHANGED <<d, calls, guardVars, hyperVars>>

\* Rocket runs the ContentLengthHeader guard on the request
GuardContentLengthHeader ==
    /\ pc = "guards"
    /\ last' = [op |-> "ContentLengthHeader::from_request",
                res |-> RocketContentLengthFromRequest(req)]
    /\ UNCHANGED <<d, calls, guardVars, hyperVars>>

\* a request arrives at a route that uses the two guards
InitRocket ==
    /\ d = NoDigest
    /\ last = NoCall
    /\ calls = 0
    /\ pc = "guards"
    /\ req \in [digest : DigestHeaders, content_length : LengthHeaders]
    /\ stream = [data |-> <<>>, fails |-> FALSE]
    /\ digest = NoDigest
    /\ content_length = 0
    /\ body = <<>>
    /\ bytesRead = 0
    /\ readCalls = 0
    /\ outcome = None
    /\ HyperIdle

NextRocket ==
    \/ GuardDigestHeader
    \/ GuardContentLengthHeader

\* the guards of use_rocket on one request
SpecRocket == InitRocket /\ [][NextRocket]_vars

----------------------------------------------------------------------------
(* use_hyper.rs: DigestHeader, Body::into_digest, Request<Body>::as_digest *)
(* and with_digest                                                          *)

\* an item of hyper's header map: no header, raw lines, or a typed value
HeaderAbsent == [tag |-> "absent"]
HeaderRaw(lines) == [tag |-> "raw", lines |-> lines]
HeaderTyped(v) == [tag |-> "typed", val |-> v]

\* the header names of the model: DigestHeader::header_name and one other
HeaderDigest == "Digest"
HeaderContentType == "Content-Type"
HeaderNames == {HeaderDigest, HeaderContentType}

\* enum Error of use_hyper: Hyper(HyperError), NoBody
HyperErrorHyper == [variant |-> "Hyper"]

\* DigestHeader::parse_header: exactly one line, UTF-8, parsed as a Digest
\* (the lines of the model are UTF-8)
ParseHeader(raw) ==
    IF Len(raw) = 1
    THEN LET parsed == DigestFromStr(raw[1])
         IN  IF parsed.tag = "Ok" THEN Ok(parsed.val)
             ELSE IF parsed.tag = "Err" THEN Err("Header")
             ELSE Panic
    ELSE Err("Header")

\* a slip in fmt_header: the encoded hash alone is written
FmtHeaderHashOnly(self) == <<self.digest>>

\* DigestHeader::fmt_header: one line, the Display of the Digest
FmtHeader(self) == <<AsString(self)>>

\* Headers::set(DigestHeader(digest)): the typed value replaces the item
HeadersSetDigest(headers, digest_) ==
    [headers EXCEPT ![HeaderDigest] = HeaderTyped(digest_)]

\* Headers::remove::<DigestHeader>(): the item leaves the map; a typed item
\* is returned as it is, a raw one through parse_header(..).ok()
HeadersRemoveDigest(headers) ==
    LET item == headers[HeaderDigest]
        found == IF item.tag = "typed" THEN Some(item.val)
                 ELSE IF item.tag = "raw"
                 THEN LET parsed == ParseHeader(item.lines)
                      IN  IF parsed.tag = "Ok" THEN Some(parsed.val) ELSE None
                 ELSE None
    IN  [found |-> found,
         headers |-> [headers EXCEPT ![HeaderDigest] = HeaderAbsent]]

\* Stream::concat2 on a stream that ends: the chunks, one after the other
RECURSIVE Concat2(_)
Concat2(chunks) ==
    IF chunks = <<>> THEN <<>> ELSE Head(chunks) \o Concat2(Tail(chunks))

\* Request::new(method, uri): HTTP/1.1, no headers, an empty body
RequestNew(method, uri) ==
    [method |-> method, uri |-> uri, version |-> "Http11",
     headers |-> [n \in HeaderNames |-> HeaderAbsent],
     body |-> [chunks |-> <<>>, fails |-> FALSE]]

\* the request as the receiving side has it after the transfer: every typed
\* header was written with fmt_header and arrives as raw lines
Transmit(request) ==
    [request EXCEPT !.headers =
        [n \in HeaderNames |->
            IF request.headers[n].tag = "typed"
            THEN HeaderRaw(FmtHeader(request.headers[n].val))
            ELSE request.headers[n]]]

\* as_digest: let (method, uri, http_version, headers, body) = self.deconstruct()
Deconstruct ==
    /\ hpc = "deconstruct"
    /\ hparts' = Some([method |-> hreq.method, uri |-> hreq.uri,
                       version |-> hreq.version, headers |-> hreq.headers])
    /\ hpc' = "concat2"
    /\ UNCHANGED <<hcall, hreq, hstream, hdigest, hnew, hret, hrecv,
                   digestVars, guardVars>>

\* a slip in concat2: the new chunk is put before the collected bytes
PollChunkPrepend ==
    /\ hpc = "concat2"
    /\ hstream.rest # <<>>
    /\ hstream' = [rest |-> Tail(hstream.rest),
                   acc |-> Head(hstream.rest) \o hstream.acc]
    /\ UNCHANGED <<hpc, hcall, hreq, hparts, hdigest, hnew, hret, hrecv,
                   digestVars, guardVars>>

\* into_digest: self.concat2().wait(), the stream yields its next chunk
PollChunk ==
    /\ hpc = "concat2"
    /\ hstream.rest # <<>>
    /\ hstream' = [rest |-> Tail(hstream.rest),
                   acc |-> hstream.acc \o Head(hstream.rest)]
    /\ UNCHANGED <<hpc, hcall, hreq, hparts, hdigest, hnew, hret, hrecv,
                   digestVars, guardVars>>

\* a slip in into_digest: the error of the stream is taken as its end
PollErrorSwallowed ==
    /\ hpc = "concat2"
    /\ hstream.rest = <<>>
    /\ hreq.body.fails
    /\ hpc' = "digest"
    /\ UNCHANGED <<hcall, hreq, hparts, hstream, hdigest, hnew, hret, hrecv,
                   digestVars, guardVars>>

\* into_digest: self.concat2().wait()?, the stream yields an error; the `?`
\* here, in as_digest and in with_digest returns Err(Error::Hyper(e))
PollError ==
    /\ hpc = "concat2"
    /\ hstream.rest = <<>>
    /\ hreq.body.fails
    /\ hret' = Err(HyperErrorHyper)
    /\ hpc' = "returned"
    /\ UNCHANGED <<hcall, hreq, hparts, hstream, hdigest, hnew, hrecv,
                   digestVars, guardVars>>

\* into_digest: self.concat2().wait()?, the stream ends
PollEnd ==
    /\ hpc = "concat2"
    /\ hstream.rest = <<>>
    /\ ~hreq.body.fails
    /\ hpc' = "digest"
    /\ UNCHANGED <<hcall, hreq, hparts, hstream, hdigest, hnew, hret, hrecv,
                   digestVars, guardVars>>

\* into_digest: let digest = Digest::new(&full_body, sha_size);
\* Ok((full_body, digest))
ComputeDigest ==
    /\ hpc = "digest"
    /\ hdigest' = Some(DigestNew(hstream.acc, hcall.sha_size))
    /\ IF hcall.fn = "into_digest"
       THEN /\ hret' = Ok([item |-> hstream.acc, digest |-> hdigest'.val])
            /\ hpc' = "returned"
       ELSE /\ hret' = hret
            /\ hpc' = "rebuild"
    /\ UNCHANGED <<hcall, hreq, hparts, hstream, hnew, hrecv,
                   digestVars, guardVars>>

\* a slip in as_digest: req.set_version(http_version) left out, the new
\* request keeps the version Request::new gave it
RebuildWithoutVersion ==
    /\ hpc = "rebuild"
    /\ hnew' = Some([RequestNew(hparts.val.method, hparts.val.uri)
                        EXCEPT !.headers = hparts.val.headers,
                               !.body = [chunks |-> <<hstream.acc>>,
                                         fails |-> FALSE]])
    /\ IF hcall.fn = "as_digest"
       THEN /\ hret' = Ok([req |-> hnew'.val, digest |-> hdigest.val])
            /\ hpc' = "returned"
       ELSE /\ hret' = hret
            /\ hpc' = "set_header"
    /\ UNCHANGED <<hcall, hreq, hparts, hstream, hdigest, hrecv,
                   digestVars, guardVars>>

\* as_digest: Request::new(method, uri), *req.headers_mut() = headers,
\* req.set_version(http_version), req.set_body(body), Ok((req, digest))
Rebuild ==
    /\ hpc = "rebuild"
    /\ hnew' = Some([RequestNew(hparts.val.method, hparts.val.uri)
                        EXCEPT !.headers = hparts.val.headers,
                               !.version = hparts.val.version,
                               !.body = [chunks |-> <<hstream.acc>>,
                                         fails |-> FALSE]])
    /\ IF hcall.fn = "as_digest"
       THEN /\ hret' = Ok([req |-> hnew'.val, digest |-> hdigest.val])
            /\ hpc' = "returned"
       ELSE /\ hret' = hret
            /\ hpc' = "set_header"
    /\ UNCHANGED <<hcall, hreq, hparts, hstream, hdigest, hrecv,
                   digestVars, guardVars>>

\* with_digest: req.headers_mut().set(DigestHeader(digest)); Ok(req)
SetDigestHeader ==
    /\ hpc = "set_header"
    /\ hnew' = Some([hnew.val EXCEPT
                        !.headers = HeadersSetDigest(@, hdigest.val)])
    /\ hret' = Ok([req |-> hnew'.val])
    /\ hpc' = "returned"
    /\ UNCHANGED <<hcall, hreq, hparts, hstream, hdigest, hrecv,
                   digestVars, guardVars>>

\* the receiver of the request with_digest returned, in the same process or
\* after a transfer: it removes the DigestHeader, reads the body and computes
\* Digest::new(&body, digest_header.sha_size())
Receive(wire) ==
    /\ hpc = "returned"
    /\ hcall.fn = "with_digest"
    /\ hret.tag = "Ok"
    /\ LET arrived == IF wire THEN Transmit(hret.val.req) ELSE hret.val.req
           removed == HeadersRemoveDigest(arrived.headers)
           body_ == Concat2(arrived.body.chunks)
       IN  hrecv' = Some([digest_header |-> removed.found,
                          body |-> body_,
                          digest |-> IF removed.found = None THEN None
                                     ELSE Some(DigestNew(body_,
                                            DigestShaSize(removed.found.val)))])
    /\ hpc' = "received"
    /\ UNCHANGED <<hcall, hreq, hparts, hstream, hdigest, hnew, hret,
                   digestVars, guardVars>>

\* bound: the number of chunks of a body stream
MaxChunks == 2

\* the chunks a body stream yields
Chunks == {<<>>, <<0>>, <<255, 0>>}

\* body streams: the chunks they yield, then end of stream or an error
HyperBodies == [chunks : SeqsUpTo(Chunks, MaxChunks), fails : BOOLEAN]

\* header maps of the request: no Digest header, one of an earlier body, two
\* lines that are no Digest; with and without another header ("json")
HyperHeaders ==
    [HeaderNames ->
        {HeaderAbsent, HeaderRaw(<<AsString(DigestNew(<<>>, "TwoFiftySix"))>>),
         HeaderRaw(<<StrAbc, StrAbc>>), HeaderRaw(<<<<106, 115, 111, 110>>>>)}]

\* the requests the methods are called on
HyperRequests ==
    {r \in [method : {"Get", "Post"}, uri : {"http://example.com"},
            version : {"Http10", "Http11"}, headers : HyperHeaders,
            body : HyperBodies] :
        /\ r.headers[HeaderContentType].tag = "raw"
              => r.headers[HeaderContentType].lines = <<<<106, 115, 111, 110>>>>
        /\ r.headers[HeaderDigest].tag = "raw"
              => r.headers[HeaderDigest].lines # <<<<106, 115, 111, 110>>>>}

\* one of the three methods is called; into_digest is called on a Body, which
\* here is the body of a request that has nothing else
InitHyper ==
    /\ d = NoDigest
    /\ last = NoCall
    /\ calls = 0
    /\ GuardIdle
    /\ hcall \in [fn : {"into_digest", "as_digest", "with_digest"},
                  sha_size : ShaSize]
    /\ hreq \in HyperRequests
    /\ hcall.fn = "into_digest" =>
          hreq = [RequestNew("Get", "http://example.com")
                     EXCEPT !.body = hreq.body]
    /\ hpc = IF hcall.fn = "into_digest" THEN "concat2" ELSE "deconstruct"
    /\ hparts = None
    /\ hstream = [rest |-> hreq.body.chunks, acc |-> <<>>]
    /\ hdigest = NoDigest
    /\ hnew = None
    /\ hret = None
    /\ hrecv = None

NextHyper ==
    \/ Deconstruct
    \/ PollChunk
    \/ PollError
    \/ PollEnd
    \/ ComputeDigest
    \/ Rebuild
    \/ SetDigestHeader
    \/ \E wire \in BOOLEAN : Receive(wire)

\* one call of into_digest, as_digest or with_digest, and the receiver
SpecHyper == InitHyper /\ [][NextHyper]_vars

----------------------------------------------------------------------------
(* Properties *)

\* the text of s before its first '=' and after it (s contains '=')
HasEq(s) == \E i \in 1..Len(s) : s[i] = EQ
FirstEq(s) == CHOOSE i \in 1..Len(s) : s[i] = EQ /\ \A j \in 1..(i - 1) : s[j] # EQ
BeforeEq(s) == SubSeq(s, 1, FirstEq(s) - 1)
AfterEq(s) == SubSeq(s, FirstEq(s) + 1, Len(s))
CanonicalNames == {NameSha256, NameSha384, NameSha512}

\* C1: round trip. Parsing the as_string() of the Digest d the caller holds
\* (made by Digest::new, by from_base64_and_size with any encoded string,
\* or by parse) succeeds and yields a Digest equal to d.
C1_RoundTrip ==
    (last.op = "parse" /\ last.formatted) => last.res = Ok(d)

\* C1 happens: a Digest whose encoded string contains '=' came back from
\* parsing its own as_string()
C1_Witness ==
    /\ last.op = "parse" /\ last.formatted
    /\ last.str = AsString(d)
    /\ HasEq(d.digest)
    /\ last.res = Ok(d)

\* C2 (results): every verify call of a Digest made from the body it is
\* given returns Ok, the first call and every repeated one.
C2_VerifyOwnBodyOk ==
    (last.op = "verify" /\ d = DigestNew(last.body, d.size)) => last.res = Ok(<<>>)

\* C2 (frame): a verify call leaves the Digest as it was.
C2_VerifyKeepsDigest == (last'.op = "verify") => d' = d

\* C2: idempotent verify. Digest::new(b, v).verify(b) is Ok, however often
\* it is repeated, and verify changes nothing.
C2_IdempotentVerify == [](C2_VerifyOwnBodyOk) /\ [][C2_VerifyKeepsDigest]_vars

\* C2 happens: verify has been called MaxCalls times in a row on a Digest
\* with the body it was made from
C2_Witness ==
    /\ last.op = "verify"
    /\ calls = MaxCalls /\ calls >= 2
    /\ d = DigestNew(last.body, d.size)
    /\ last.res = Ok(<<>>)

\* the hash primitive does not collide on the two bodies
NoCollision(v, b1, b2) ==
    RingDigest(Algorithm(v), b1) # RingDigest(Algorithm(v), b2)

\* C3: tamper sensitivity. A Digest made from body b, verified against
\* another body on which the hash does not collide with b, gives
\* Err(InvalidDigest).
C3_TamperSensitivity ==
    last.op = "verify" =>
        \A b \in Bodies :
            (/\ b # last.body
             /\ d = DigestNew(b, d.size)
             /\ NoCollision(d.size, b, last.body))
            => last.res = Err("InvalidDigest")

\* C3 happens: a Digest of one body was verified against another body
C3_Witness ==
    /\ last.op = "verify"
    /\ \E b \in Bodies :
          /\ b # last.body
          /\ d = DigestNew(b, d.size)
          /\ NoCollision(d.size, b, last.body)
    /\ last.res = Err("InvalidDigest")

\* C4: verify is Ok exactly when the encoded string of the Digest equals,
\* character for character, the base64 encoding of the hash of the body
\* under the Digest's ShaSize; otherwise it is Err(InvalidDigest).
C4_VerifyExactString ==
    last.op = "verify" =>
        LET expected == Base64Encode(RingDigest(Algorithm(d.size), last.body))
        IN  /\ (d.digest = expected) => last.res = Ok(<<>>)
            /\ (d.digest # expected) => last.res = Err("InvalidDigest")

\* C4 happens: an encoded string that differs from the right one only in
\* its padding was rejected
C4_Witness ==
    /\ last.op = "verify"
    /\ LET expected == Base64Encode(RingDigest(Algorithm(d.size), last.body))
       IN  /\ d.digest # expected
           /\ TrimPadding(d.digest) = TrimPadding(expected)
    /\ last.res = Err("InvalidDigest")

\* C5: Digest parse splits at the first '=' only. It succeeds exactly when
\* the text before the first '=' is one of the three names; the result has
\* that ShaSize and, as encoded string, everything after the first '='.
C5_ParseSplitsAtFirstEq ==
    last.op = "parse" =>
        LET s == last.str
            good == HasEq(s) /\ BeforeEq(s) \in CanonicalNames
        IN  /\ (last.res.tag = "Ok") = good
            /\ good =>
                  /\ ShaSizeDisplay(last.res.val.size) = BeforeEq(s)
                  /\ last.res.val.digest = AfterEq(s)

\* C5 happens: a header value whose encoded part contains a further '='
\* was parsed
C5_Witness ==
    /\ last.op = "parse" /\ ~last.formatted
    /\ last.res.tag = "Ok"
    /\ HasEq(AfterEq(last.str))
    /\ last.res.val.digest = AfterEq(last.str)

\* C6: Digest parse of a string without '=' fails with ParseDigest, and of
\* a string whose text before the first '=' is not one of the three names
\* with ParseShaSize.
C6_ParseRejectsGarbage ==
    last.op = "parse" =>
        LET s == last.str
        IN  /\ ~HasEq(s) => last.res = Err("ParseDigest")
            /\ (HasEq(s) /\ BeforeEq(s) \notin CanonicalNames)
                  => last.res = Err("ParseShaSize")

\* C6 happens: "SHA-420=abc" was parsed
C6_Witness ==
    /\ last.op = "parse"
    /\ last.str = <<83, 72, 65, 45, 52, 50, 48, EQ>> \o StrAbc
    /\ last.res = Err("ParseShaSize")

\* C7 as stated: when the text before the first '=' fails ShaSize parsing,
\* Digest parse fails with ParseDigest.
C7_Original ==
    (/\ last.op = "parse"
     /\ HasEq(last.str)
     /\ BeforeEq(last.str) \notin CanonicalNames)
    => last.res = Err("ParseDigest")

\* C7 amended: when the text before the first '=' fails ShaSize parsing,
\* Digest parse fails with the error ShaSize parsing returned, ParseShaSize,
\* which is not the kind returned when the '=' is absent.
C7_VariantErrorPropagates ==
    (/\ last.op = "parse"
     /\ HasEq(last.str)
     /\ BeforeEq(last.str) \notin CanonicalNames)
    => /\ last.res = ShaSizeFromStr(BeforeEq(last.str))
       /\ last.res.tag = "Err"
       /\ last.res.err = "ParseShaSize"
       /\ last.res # DigestFromStr(StrNotAValidDigest)

\* C7 happens: a header value with the name in lower case was parsed
C7_Witness ==
    /\ last.op = "parse"
    /\ HasEq(last.str)
    /\ BeforeEq(last.str) = <<115, 104, 97, 45, 50, 53, 54>>
    /\ last.res = Err("ParseShaSize")

\* C8: the names and the ShaSize variants correspond exactly. The three
\* names differ, parsing the name of a variant yields the variant, and
\* every other string fails with ParseShaSize.
C8_ShaSizeNamesExact ==
    /\ \A v, w \in ShaSize : ShaSizeDisplay(v) = ShaSizeDisplay(w) => v = w
    /\ last.op = "parse_sha" =>
          /\ \A v \in ShaSize :
                last.str = ShaSizeDisplay(v) => last.res = Ok(v)
          /\ (\A v \in ShaSize : last.str # ShaSizeDisplay(v))
                => last.res = Err("ParseShaSize")

\* C8 happens: " SHA-256" (a leading blank) was rejected
C8_Witness ==
    /\ last.op = "parse_sha"
    /\ last.str = <<32>> \o NameSha256
    /\ last.res = Err("ParseShaSize")

\* C9: parsing is total. Digest parse and ShaSize parse return a value or
\* one of the errors ParseDigest, ParseShaSize; they never panic.
C9_ParseTotal ==
    /\ last.op = "parse" =>
          \/ last.res.tag = "Ok"
          \/ last.res.tag = "Err" /\ last.res.err \in {"ParseDigest", "ParseShaSize"}
    /\ last.op = "parse_sha" =>
          \/ last.res.tag = "Ok"
          \/ last.res.tag = "Err" /\ last.res.err = "ParseShaSize"

\* C9 happens: a string with a two-byte char before its '=' was parsed
C9_Witness ==
    /\ last.op = "parse"
    /\ HasEq(last.str)
    /\ BeforeEq(last.str) = StrEAcute
    /\ last.res.tag = "Err"

\* the request carries a Digest header that parses
ValidDigestHeader ==
    req.digest.tag = "Some" /\ DigestFromStr(req.digest.val).tag = "Ok"

\* the request declares a length above 2 MiB
DeclaresTooLarge ==
    /\ req.content_length.tag = "Some"
    /\ ParseUsize(req.content_length.val).tag = "Ok"
    /\ ParseUsize(req.content_length.val).val > 2097152

\* C10: guard ordering. No read of the body stream is made before the size
\* test has passed; with a valid Digest header and a declared length above
\* the ceiling the guard never gets past the size test, and ends there with
\* a failure and nothing read.
C10_GuardOrdering ==
    /\ pc \in {"ExtractDigest", "ExtractLength", "BoundCheck"}
          => readCalls = 0 /\ bytesRead = 0
    /\ (ValidDigestHeader /\ DeclaresTooLarge) =>
          /\ pc \in {"ExtractDigest", "ExtractLength", "BoundCheck", "done"}
          /\ readCalls = 0 /\ bytesRead = 0
          /\ pc = "done" => outcome = Fail("BadRequest", "BoundCheck")

\* C10 happens: a request declaring 3000000 bytes, with bytes waiting in
\* its stream, was rejected by the size test
C10_Witness ==
    /\ pc = "done"
    /\ ValidDigestHeader
    /\ req.content_length = Some(<<51, 48, 48, 48, 48, 48, 48>>)
    /\ stream.data # <<>>
    /\ outcome = Fail("BadRequest", "BoundCheck")
    /\ bytesRead = 0

----------------------------------------------------------------------------
(* Properties of from_data *)

\* the request carries a Content-Length header that parses
ValidLengthHeader ==
    req.content_length.tag = "Some" /\ ParseUsize(req.content_length.val).tag = "Ok"

\* the Digest the request claims and the length it declares (valid headers)
Claimed == DigestFromStr(req.digest.val).val
Declared == ParseUsize(req.content_length.val).val

\* the terminal states, by the return statement of from_data that was taken
Terminal(o) ==
    IF o.kind = "Success" THEN "Verified"
    ELSE CASE o.at = "ExtractDigest" -> "HeaderError(Digest)"
           [] o.at = "ExtractLength" -> "HeaderError(Length)"
           [] o.at = "BoundCheck" -> "TooLarge"
           [] o.at = "BoundedRead" -> "ReadFailed"
           [] o.at = "Verify" -> "DigestMismatch"

\* the terminal state the request must end in: the failure of the earliest
\* stage that fails
ExpectedTerminal ==
    IF ~ValidDigestHeader THEN "HeaderError(Digest)"
    ELSE IF ~ValidLengthHeader THEN "HeaderError(Length)"
    ELSE IF Declared > 2097152 THEN "TooLarge"
    ELSE IF Len(stream.data) < Declared THEN "ReadFailed"
    ELSE IF Verify(Claimed, SubSeq(stream.data, 1, Declared)) # Ok(<<>>)
    THEN "DigestMismatch"
    ELSE "Verified"

StageRank(p) ==
    CASE p = "ExtractDigest" -> 1
      [] p = "ExtractLength" -> 2
      [] p = "BoundCheck" -> 3
      [] p = "BoundedRead" -> 4
      [] p = "Verify" -> 5
      [] p = "done" -> 6

\* C11 (steps): a step stays in its stage, moves to the next stage, or ends
\* the run; no stage is entered again and none is skipped.
C11_StageOrder ==
    \/ pc' = pc
    \/ pc' = "done" /\ pc # "done"
    \/ StageRank(pc') = StageRank(pc) + 1

\* C11 (states): a run that has not ended has no outcome, and its read
\* loop (the one stage that is not straight-line code) can take a step; a
\* run that has ended has exactly one outcome, the terminal state of the
\* earliest stage that fails (Verified when none does).
C11_OneTerminal ==
    /\ pc # "done" => outcome = None
    /\ pc = "BoundedRead" =>
          ENABLED (ReadEof \/ ReadError \/ ReadDone
                      \/ \E n \in 1..MaxBodyLen : ReadChunk(n))
    /\ pc = "done" => outcome # None /\ Terminal(outcome) = ExpectedTerminal

\* C11: the guard is one linear pass ExtractDigest, ExtractLength,
\* BoundCheck, BoundedRead, Verify, ending in exactly one terminal state,
\* that of the earliest failing stage.
C11_LinearPass == [](C11_OneTerminal) /\ [][C11_StageOrder]_vars

\* C11 happens: a request with a bad Digest header and an oversize length
\* ended in the header error
C11_Witness ==
    /\ pc = "done"
    /\ ~ValidDigestHeader
    /\ DeclaresTooLarge
    /\ Terminal(outcome) = "HeaderError(Digest)"

\* C14: with valid headers and a declared length within the ceiling, a
\* stream that ends or fails before the declared length ends the guard in
\* ReadFailed (InternalServerError); the digest comparison is never reached.
C14_ShortReadFails ==
    (/\ ValidDigestHeader
     /\ ValidLengthHeader
     /\ Declared <= 2097152
     /\ Len(stream.data) < Declared)
    => /\ pc # "Verify"
       /\ pc = "done" => outcome = Fail("InternalServerError", "BoundedRead")

\* C14 happens: a stream that raised a read error after a part of the
\* declared bytes ended the guard in ReadFailed
C14_Witness ==
    /\ pc = "done"
    /\ ValidDigestHeader /\ ValidLengthHeader
    /\ stream.fails
    /\ bytesRead > 0 /\ bytesRead < Declared
    /\ outcome = Fail("InternalServerError", "BoundedRead")

\* the read of the declared bytes succeeded: the run got to the comparison
ReadSucceeded ==
    pc = "done" /\ (outcome.kind = "Success" \/ outcome.at = "Verify")

\* C15: a Verified guard yields exactly the bytes read from the stream, as
\* many as declared and no more than the ceiling, and the claimed Digest
\* verifies against them; a read that succeeded with bytes the claimed
\* Digest does not verify against ends in DigestMismatch.
C15_VerifiedBuffer ==
    /\ (pc = "done" /\ outcome.kind = "Success") =>
          /\ outcome.val = SubSeq(stream.data, 1, bytesRead)
          /\ Len(outcome.val) = Declared
          /\ Len(outcome.val) <= 2097152
          /\ Verify(Claimed, outcome.val) = Ok(<<>>)
    /\ (ReadSucceeded /\ Verify(Claimed, body) # Ok(<<>>)) =>
          outcome = Fail("BadRequest", "Verify")

\* C15 happens: a non-empty body was verified and yielded
C15_Witness ==
    /\ pc = "done"
    /\ outcome.kind = "Success"
    /\ outcome.val # <<>>
    /\ outcome.val = stream.data

C20_OnlyDeclaredPrefix ==
    /\ pc \in {"BoundedRead", "Verify", "done"} /\ ValidLengthHeader /\ ValidDigestHeader
          => bytesRead <= Declared \/ Declared > 2097152
    /\ (/\ pc = "done"
        /\ ValidDigestHeader /\ ValidLengthHeader
        /\ Declared <= Len(stream.data))
       => /\ bytesRead = Declared
          /\ Declared = 0 => readCalls = 0
          /\ Claimed = DigestNew(SubSeq(stream.data, 1, Declared), Claimed.size)
                => outcome = [kind |-> "Success",
                              val |-> SubSeq(stream.data, 1, Declared)]

\* C20 happens: a request declaring 0 bytes, with bytes in its stream, was
\* verified against the empty body
C20_Witness ==
    /\ pc = "done"
    /\ ValidDigestHeader /\ ValidLengthHeader
    /\ Declared = 0
    /\ stream.data # <<>>
    /\ bytesRead = 0
    /\ outcome = [kind |-> "Success", val |-> <<>>]

----------------------------------------------------------------------------
(* Properties of the guards of use_rocket *)

OnlyDigits(s) == s # <<>> /\ \A i \in 1..Len(s) : s[i] >= 48 /\ s[i] <= 57
NoNumber(s) ==
    \/ s = <<>>
    \/ \E i \in 1..Len(s) : ~(s[i] >= 48 /\ s[i] <= 57) /\ s[i] # 43 /\ s[i] # 45

UsizeText(s) ==
    LET digits == IF s # <<>> /\ s[1] = 43 THEN Tail(s) ELSE s
    IN  OnlyDigits(digits) /\ ~OverflowsUsize(digits)

----------------------------------------------------------------------------
(* Properties of the methods of use_hyper *)

\* the bytes of a sequence of chunks, in the order of the stream
RECURSIVE Flatten(_)
Flatten(chunks) ==
    IF chunks = <<>> THEN <<>>
    ELSE Flatten(SubSeq(chunks, 1, Len(chunks) - 1)) \o chunks[Len(chunks)]

\* the body stream of the call ends without an error
Drains == ~hreq.body.fails
\* all bytes of the body the method was called on
OriginalBytes == Flatten(hreq.body.chunks)
\* the bytes of the body the method returned
ReturnedBytes ==
    IF hcall.fn = "into_digest" THEN hret.val.item
    ELSE Flatten(hret.val.req.body.chunks)

\* C16: on a body stream that drains without error, into_digest and
\* as_digest return a body with all bytes of the stream in order and the
\* Digest::new of these bytes and sha_size; a digest exists only once the
\* whole stream has been collected.
C16_NonDestructive ==
    /\ (hcall.fn \in {"into_digest", "as_digest"} /\ hpc = "returned" /\ Drains)
          => /\ hret.tag = "Ok"
             /\ ReturnedBytes = OriginalBytes
             /\ hcall.fn = "as_digest" => ~hret.val.req.body.fails
             /\ hret.val.digest = DigestNew(OriginalBytes, hcall.sha_size)
    /\ hdigest # NoDigest
          => /\ hstream.rest = <<>>
             /\ hstream.acc = OriginalBytes
             /\ hdigest.val = DigestNew(OriginalBytes, hcall.sha_size)

\* C16 happens: as_digest returned after a stream of two different chunks
C16_Witness ==
    /\ hcall.fn = "as_digest"
    /\ hpc = "returned"
    /\ hreq.body = [chunks |-> <<<<0>>, <<255, 0>>>>, fails |-> FALSE]
    /\ hret.tag = "Ok"
    /\ hret.val.req.body.chunks = <<<<0, 255, 0>>>>

\* C17: when the body stream ends in an error, each of the three methods
\* returns Err(Error::Hyper); no Digest is computed, no request is built and
\* no receiver gets a Digest header.
C17_StreamErrorSurfaces ==
    hreq.body.fails =>
        /\ hdigest = NoDigest
        /\ hnew = None
        /\ hrecv = None
        /\ hpc \in {"deconstruct", "concat2", "returned"}
        /\ hret = IF hpc = "returned" THEN Err(HyperErrorHyper) ELSE None

\* C17 happens: with_digest returned the error of a stream that had yielded
\* two chunks before it failed
C17_Witness ==
    /\ hcall.fn = "with_digest"
    /\ hreq.body = [chunks |-> <<<<0>>, <<255, 0>>>>, fails |-> TRUE]
    /\ hstream.acc = <<0, 255, 0>>
    /\ hpc = "returned"
    /\ hret = Err(HyperErrorHyper)

\* C18: on a body stream that drains without error, with_digest returns Ok
\* with a request whose Digest header is Digest::new(body, sha_size) and
\* whose body has the same bytes; the receiver finds the header, and the
\* Digest::new of the body it reads and of the header's sha_size equals it.
C18_WithDigestRoundTrip ==
    (hcall.fn = "with_digest" /\ Drains) =>
        /\ hpc \in {"returned", "received"} =>
              /\ hret.tag = "Ok"
              /\ hret.val.req.headers[HeaderDigest] =
                    HeaderTyped(DigestNew(OriginalBytes, hcall.sha_size))
              /\ Flatten(hret.val.req.body.chunks) = OriginalBytes
        /\ hpc = "received" =>
              /\ hrecv.val.digest_header # None
              /\ hrecv.val.digest = hrecv.val.digest_header
              /\ DigestShaSize(hrecv.val.digest_header.val) = hcall.sha_size
              /\ hrecv.val.body = OriginalBytes

\* C18 happens: the receiver of a request that had carried the Digest of
\* another body found the SHA-512 digest of the two chunks
C18_Witness ==
    /\ hcall = [fn |-> "with_digest", sha_size |-> "FiveTwelve"]
    /\ hreq.body.chunks = <<<<255, 0>>, <<0>>>>
    /\ hreq.headers[HeaderDigest].tag = "raw"
    /\ hpc = "received"
    /\ hrecv.val.digest = Some(DigestNew(<<255, 0, 0>>, "FiveTwelve"))
    /\ hrecv.val.digest_header = hrecv.val.digest

\* C21: the request as_digest returns has the method, URI, version and
\* header map of the request it was called on; the one with_digest returns
\* differs from that in the Digest header only, which holds one value, the
\* new digest, whatever Digest header the request carried before.
C21_RestOfRequestKept ==
    (hcall.fn \in {"as_digest", "with_digest"} /\ hret # None /\ hret.tag = "Ok") =>
        LET out == hret.val.req
        IN  /\ out.method = hreq.method
            /\ out.uri = hreq.uri
            /\ out.version = hreq.version
            /\ hcall.fn = "as_digest" => out.headers = hreq.headers
            /\ hcall.fn = "with_digest" =>
                  /\ \A n \in HeaderNames \ {HeaderDigest} :
                        out.headers[n] = hreq.headers[n]
                  /\ out.headers[HeaderDigest].tag = "typed"
                  /\ out.headers[HeaderDigest].val =
                        DigestNew(OriginalBytes, hcall.sha_size)
                  /\ Transmit(out).headers[HeaderDigest].lines =
                        <<AsString(DigestNew(OriginalBytes, hcall.sha_size))>>

\* C21 happens: with_digest returned for an HTTP/1.0 POST that carried a
\* Content-Type header and two Digest lines
C21_Witness ==
    /\ hcall.fn = "with_digest"
    /\ hpc = "returned"
    /\ hret.tag = "Ok"
    /\ hreq.method = "Post"
    /\ hreq.version = "Http10"
    /\ hreq.headers[HeaderContentType].tag = "raw"
    /\ hreq.headers[HeaderDigest] = HeaderRaw(<<StrAbc, StrAbc>>)
    /\ hreq.body.chunks # <<>>
    /\ hret.val.req.version = "Http10"
    /\ hret.val.req.headers[HeaderDigest].tag = "typed"

====
